---- MODULE Spec2Model ----
(***************************************************************************)
(* A model of the tablet server's cache pool (CachePool: a supervised      *)
(* memcached child and a bounded pool of connections to it) and of the     *)
(* table-info loader (TableInfo: columns, indexes, primary key).           *)
(*                                                                         *)
(* The cache pool is a state machine over threads that call Open, Close,   *)
(* Get, Put and IsClosed; every step between two points where another      *)
(* thread can observe or change shared state is one action.  log.Fatal     *)
(* ends the process (crashed); a panic unwinds the calling thread, runs    *)
(* its deferred unlock and is reported to the caller as the call's result. *)
(***************************************************************************)
EXTENDS Integers, Sequences, FiniteSets, TLC

\* ------------------------------------------------------------------ bounds
NThreads == 3
MaxOpens == 2
MaxCap == 2

\* ------------------------------------------------------- program constants
ProbeAttempts == 50
Second == 1000000000
ReservedConnections == 50
DefaultConnections == 1024

Threads == 1..NThreads
\* The thread that owns the pool's lifecycle (the query engine): under Spec
\* it alone calls Open and Close; under RaceSpec every thread may.
Owner == CHOOSE t \in Threads : \A u \in Threads : t <= u

VARIABLES
    binary,       \* rowCacheConfig.Binary # ""
    usesSocket,   \* strings.Contains(cp.port, "/")
    cpCapacity,   \* cp.capacity
    cpPool,       \* cp.pool: 0 is nil, else an index into rp
    cpCmd,        \* cp.cmd: 0 is nil, else an index into child
    mu,           \* cp.mu: 0 is unlocked, else the thread holding it
    rp,           \* every pools.ResourcePool constructed so far
    child,        \* every child process started so far, by status
    waiters,      \* children with a `go cp.cmd.Wait()` reaper
    sockFile,     \* the socket file exists
    pc,           \* each thread's position
    snap,         \* each thread's local `pool` (the snapshot of cp.pool)
    held,         \* the connection each thread holds between Get and Put
    arg,          \* the argument of the call a thread is in
    expired,      \* the timeout given to a thread's Get has elapsed
    count,        \* a thread's loop counter: startMemcache's attempts,
                  \* SetCapacity's wrappers still to receive
    startGen,     \* per Get: 0, or if cp.pool was closed when the Get started,
                  \* one more than the number of pools built by then
    ret,          \* the call that returned in the last step, and its result
    crashed,      \* the process has exited (log.Fatal), and why
    ti,           \* the TableInfo being loaded: its schema.Table
    tstep,        \* how far NewTableInfo has come, and whether SetPK ran
    tret,         \* the result of the last SetPK
    targ,         \* the colnames of the last SetPK
    tableType,    \* NewTableInfo's tableType
    comment,      \* NewTableInfo's comment, a sequence of characters
    cfgConnections, \* rowCacheConfig.Connections
    queryTimeout, \* NewCachePool's queryTimeout, in nanoseconds
    deleteExpiry, \* cp.DeleteExpiry
    built,        \* NewCachePool has returned the pool
    val,          \* the last result of Capacity() or MaxCap(), and the pool
                  \* it was read from (0: cp.pool was nil)
    maxPrefix,    \* the process-wide maxPrefix counter
    prefixes,     \* the values GetMaxPrefix returned to each thread, in order
    stmt,         \* the statement sqlparser.Parse returned to GetExecPlan
    plan,         \* the plan analyzeSQL returned (NilPlan: nil)
    perr,         \* the error GetExecPlan's last step returned
    lookups,      \* the calls of getTable analyzeSQL has led to
    pstep,        \* how far GetExecPlan has come
    selStmt,      \* the statement GenerateSelectLimitQuery was given, as it is now
    selStmt0,     \* that statement as it was when the call began
    deferred,     \* GenerateSelectLimitQuery has registered its deferred reset
    query,        \* the text GenerateSelectLimitQuery printed, as tokens
    gstep         \* how far GenerateSelectLimitQuery has come

tableVars == <<ti, tstep, tret, targ, tableType, comment>>

confVars == <<cfgConnections, queryTimeout, deleteExpiry, built, val>>
prefixVars == <<maxPrefix, prefixes>>
genVars == <<selStmt, selStmt0, deferred, query, gstep>>
planVars == <<stmt, plan, perr, lookups, pstep, genVars>>

\* What no step of Open, Close, Get, Put and IsClosed changes: the pool's
\* configuration, the table, the prefix counter.
cfg == <<binary, usesSocket, cpCapacity, tableVars, confVars, prefixVars,
         planVars>>
os == <<child, waiters, sockFile>>
locals == <<snap, arg, expired, count, startGen>>

vars == <<cfg, cpPool, cpCmd, mu, rp, os, pc, locals, held, ret, crashed>>

NoHold == [from |-> 0, conn |-> 0]
NoRet == [t |-> 0, out |-> "none"]

\* NewCachePool without the 50 connections it reserves.
NewCachePoolNoReserve(bin, connections) ==
    IF ~bin THEN [fatal |-> FALSE, capacity |-> 0]
    ELSE IF connections > 0
         THEN IF connections <= ReservedConnections
              THEN [fatal |-> TRUE, capacity |-> 0]
              ELSE [fatal |-> FALSE, capacity |-> connections]
         ELSE [fatal |-> FALSE, capacity |-> DefaultConnections]

\* NewCachePool with `Connections < 50` for `Connections <= 50`.
NewCachePoolOffByOne(bin, connections) ==
    IF ~bin THEN [fatal |-> FALSE, capacity |-> 0]
    ELSE IF connections > 0
         THEN IF connections < ReservedConnections
              THEN [fatal |-> TRUE, capacity |-> 0]
              ELSE [fatal |-> FALSE, capacity |-> connections - ReservedConnections]
         ELSE [fatal |-> FALSE, capacity |-> DefaultConnections - ReservedConnections]

\* -------------------------------------------------------------- NewCachePool
\* cp.capacity as NewCachePool computes it; "fatal" when log.Fatalf exits.
NewCachePool(bin, connections) ==
    IF ~bin THEN [fatal |-> FALSE, capacity |-> 0]
    ELSE IF connections > 0
         THEN IF connections <= ReservedConnections
              THEN [fatal |-> TRUE, capacity |-> 0]
              ELSE [fatal |-> FALSE, capacity |-> connections - ReservedConnections]
         ELSE [fatal |-> FALSE, capacity |-> DefaultConnections - ReservedConnections]

\* cp.DeleteExpiry as NewCachePool leaves it: seconds is the whole seconds
\* of queryTimeout (a count of nanoseconds, not negative).
DeleteExpiryOf(bin, timeout) ==
    IF ~bin THEN 0
    ELSE LET seconds == timeout \div Second IN
         IF seconds # 0 THEN 2 * seconds + 15 ELSE 0

NoVal == [from |-> 0, n |-> 0]

\* No statement, and the nil *ExecPlan.
NoStmt == [kind |-> "", table |-> "", bindVars |-> FALSE]
NilPlan == [PlanId |-> "", Reason |-> "", FieldQuery |-> "", FullQuery |-> "",
            via |-> ""]

\* The nil *sqlparser.Limit, a Select node, and no select statement.
NilLimit == [set |-> FALSE, Offset |-> "", Rowcount |-> ""]
NoSelect == [table |-> "", Limit |-> NilLimit]
NoSelStmt == [kind |-> "", Left |-> NoSelect, Right |-> NoSelect]

\* No GetMaxPrefix has been called, no statement is being planned.
PrefixIdle ==
    /\ maxPrefix = 0
    /\ prefixes = [t \in Threads |-> <<>>]
    /\ stmt = NoStmt
    /\ plan = NilPlan
    /\ perr = "nil"
    /\ lookups = 0
    /\ pstep = "sql"
    /\ selStmt = NoSelStmt
    /\ selStmt0 = NoSelStmt
    /\ deferred = FALSE
    /\ query = <<>>
    /\ gstep = "idle"

\* ---------------------------------------------------------- pools.ResourcePool
\* The resource pool is a buffered channel of wrappers (0: an empty wrapper,
\* c > 0: a connection to child c) and an atomic capacity.
NewResourcePool(capacity, maxCap) ==
    [capacity |-> capacity, maxCap |-> maxCap,
     ch |-> [i \in 1..capacity |-> 0], closed |-> FALSE]

\* The children a connect to cp.port can reach.
LiveChildren == {i \in 1..Len(child) : child[i] = "listening"}

Running == crashed = "none"

\* A call returns: its locals are gone, its result is handed to the caller.
Return(t, out) ==
    /\ pc' = [pc EXCEPT ![t] = "idle"]
    /\ snap' = [snap EXCEPT ![t] = 0]
    /\ arg' = [arg EXCEPT ![t] = 0]
    /\ expired' = [expired EXCEPT ![t] = FALSE]
    /\ count' = [count EXCEPT ![t] = 0]
    /\ startGen' = [startGen EXCEPT ![t] = 0]
    /\ ret' = [t |-> t, out |-> out]

\* log.Fatal: the process exits where it stands.
Fatal(why) ==
    /\ crashed' = why
    /\ ret' = NoRet
    /\ UNCHANGED <<pc, locals>>

\* A step inside a call, to position `to`.
Goto(t, to) ==
    /\ pc' = [pc EXCEPT ![t] = to]
    /\ ret' = NoRet

\* schema.NewTable(name): no columns, no indexes, PKColumns nil, no cache.
NewTable ==
    [Columns |-> <<>>, Indexes |-> <<>>, PKColumns |-> <<>>, PKNil |-> TRUE,
     CacheType |-> "none", Cache |-> FALSE]

\* The table-info state while the cache pool runs: no table is being loaded.
TableIdle ==
    /\ ti = NewTable
    /\ tstep = "new"
    /\ tret = "none"
    /\ targ = <<>>
    /\ tableType = ""
    /\ comment = <<>>

PoolInit ==
    /\ TableIdle
    /\ PrefixIdle
    /\ binary \in BOOLEAN
    /\ usesSocket \in BOOLEAN
    /\ cfgConnections \in (ReservedConnections + 1)..(ReservedConnections + MaxCap)
    /\ ~NewCachePool(binary, cfgConnections).fatal
    /\ cpCapacity = NewCachePool(binary, cfgConnections).capacity
    /\ queryTimeout = 0
    /\ deleteExpiry = DeleteExpiryOf(binary, queryTimeout)
    /\ built = TRUE
    /\ val = NoVal
    /\ cpPool = 0
    /\ cpCmd = 0
    /\ mu = 0
    /\ rp = <<>>
    /\ child = <<>>
    /\ waiters = {}
    /\ sockFile = FALSE
    /\ pc = [t \in Threads |-> "idle"]
    /\ snap = [t \in Threads |-> 0]
    /\ held = [t \in Threads |-> NoHold]
    /\ arg = [t \in Threads |-> 0]
    /\ expired = [t \in Threads |-> FALSE]
    /\ count = [t \in Threads |-> 0]
    /\ startGen = [t \in Threads |-> 0]
    /\ ret = NoRet
    /\ crashed = "none"

\* ------------------------------------------------------------------- Open
\* cp.mu.Lock() on entry to Open.
OpenLock(t) ==
    /\ Running /\ pc[t] = "idle" /\ mu = 0
    /\ mu' = t
    /\ Goto(t, "open_check")
    /\ UNCHANGED <<cfg, cpPool, cpCmd, rp, os, locals, held, crashed>>

\* The two panics of Open; the deferred Unlock runs.
OpenRejected(t) ==
    /\ Running /\ pc[t] = "open_check"
    /\ cpPool # 0 \/ ~binary
    /\ mu' = 0
    /\ Return(t, IF cpPool # 0 THEN "panic_already_open" ELSE "panic_no_binary")
    /\ UNCHANGED <<cfg, cpPool, cpCmd, rp, os, held, crashed>>

\* OpenStart without Open's check of cp.pool.
OpenStartUnchecked(t) ==
    /\ Running /\ pc[t] = "open_check"
    /\ binary
    /\ Len(child) < MaxOpens
    /\ sockFile' = IF usesSocket THEN FALSE ELSE sockFile
    /\ cpCmd' = Len(child) + 1
    /\ child' = Append(child, "started")
    /\ Goto(t, "probe")
    /\ UNCHANGED <<locals, crashed>>
    /\ UNCHANGED <<cfg, cpPool, mu, rp, waiters, held>>

\* startMemcache up to cmd.Start(): unlink a stale socket, start the child;
\* a child that cannot be started is fatal.
OpenStart(t) ==
    /\ Running /\ pc[t] = "open_check"
    /\ cpPool = 0 /\ binary
    /\ Len(child) < MaxOpens
    /\ sockFile' = IF usesSocket THEN FALSE ELSE sockFile
    /\ cpCmd' = Len(child) + 1
    /\ \E started \in BOOLEAN :
          IF started
          THEN /\ child' = Append(child, "started")
               /\ Goto(t, "probe")
               /\ UNCHANGED <<locals, crashed>>
          ELSE /\ child' = Append(child, "failed")
               /\ Fatal("cannot_start")
    /\ UNCHANGED <<cfg, cpPool, mu, rp, waiters, held>>

\* The child binds its endpoint (creating the socket file) some time after
\* it was started.
ChildListen(c) ==
    /\ Running /\ c \in 1..Len(child) /\ child[c] = "started"
    /\ child' = [child EXCEPT ![c] = "listening"]
    /\ sockFile' = (usesSocket \/ sockFile)
    /\ ret' = NoRet
    /\ UNCHANGED <<cfg, cpPool, cpCmd, mu, rp, waiters, pc, locals, held, crashed>>

\* Probe with `attempts > 50` for `attempts >= 50`.
ProbeOffByOne(t) ==
    /\ Running /\ pc[t] = "probe"
    /\ \E connected \in {FALSE} \cup {child[cpCmd] = "listening"} :
          IF ~connected
          THEN /\ count' = [count EXCEPT ![t] = @ + 1]
               /\ ret' = NoRet
               /\ UNCHANGED <<pc, snap, arg, expired, startGen>>
               /\ IF count[t] + 1 > ProbeAttempts
                  THEN /\ child' = [child EXCEPT ![cpCmd] = "killed"]
                       /\ waiters' = waiters \cup {cpCmd}
                       /\ crashed' = "cannot_connect"
                  ELSE UNCHANGED <<child, waiters, crashed>>
          ELSE /\ \E written \in BOOLEAN :
                     IF written
                     THEN /\ Goto(t, "open_pool")
                          /\ UNCHANGED <<locals, crashed>>
                     ELSE Fatal("cannot_communicate")
               /\ UNCHANGED <<child, waiters>>
    /\ UNCHANGED <<cfg, cpPool, cpCmd, mu, rp, sockFile, held>>

\* One turn of startMemcache's loop: sleep, connect, and on success the
\* health write; the ProbeAttempts-th failed connect kills the child and is
\* fatal, and so is a failed write.
Probe(t) ==
    /\ Running /\ pc[t] = "probe"
    /\ \E connected \in {FALSE} \cup {child[cpCmd] = "listening"} :
          IF ~connected
          THEN /\ count' = [count EXCEPT ![t] = @ + 1]
               /\ ret' = NoRet
               /\ UNCHANGED <<pc, snap, arg, expired, startGen>>
               /\ IF count[t] + 1 >= ProbeAttempts
                  THEN /\ child' = [child EXCEPT ![cpCmd] = "killed"]
                       /\ waiters' = waiters \cup {cpCmd}
                       /\ crashed' = "cannot_connect"
                  ELSE UNCHANGED <<child, waiters, crashed>>
          ELSE /\ \E written \in BOOLEAN :
                     IF written
                     THEN /\ Goto(t, "open_pool")
                          /\ UNCHANGED <<locals, crashed>>
                     ELSE Fatal("cannot_communicate")
               /\ UNCHANGED <<child, waiters>>
    /\ UNCHANGED <<cfg, cpPool, cpCmd, mu, rp, sockFile, held>>

\* OpenFinish building the pool one wrapper too large.
OpenFinishOversized(t) ==
    /\ Running /\ pc[t] = "open_pool"
    /\ rp' = Append(rp, NewResourcePool(cpCapacity + 1, cpCapacity + 1))
    /\ cpPool' = Len(rp) + 1
    /\ mu' = 0
    /\ Return(t, "opened")
    /\ UNCHANGED <<cfg, cpCmd, os, held, crashed>>

\* cp.pool = pools.NewResourcePool(f, cp.capacity, cp.capacity, ...); return.
OpenFinish(t) ==
    /\ Running /\ pc[t] = "open_pool"
    /\ rp' = Append(rp, NewResourcePool(cpCapacity, cpCapacity))
    /\ cpPool' = Len(rp) + 1
    /\ mu' = 0
    /\ Return(t, "opened")
    /\ UNCHANGED <<cfg, cpCmd, os, held, crashed>>

\* ------------------------------------------------------------------ Close
\* CloseSnapshot keeping cp.mu locked for the whole of Close.
CloseSnapshotLocked(t) ==
    /\ Running /\ pc[t] = "idle" /\ mu = 0
    /\ IF cpPool = 0
       THEN /\ Return(t, "close_noop")
            /\ mu' = mu
       ELSE /\ snap' = [snap EXCEPT ![t] = cpPool]
            /\ mu' = t
            /\ Goto(t, "close_setcap")
            /\ UNCHANGED <<arg, expired, count, startGen>>
    /\ UNCHANGED <<cfg, cpPool, cpCmd, rp, os, held, crashed>>

\* pool := cp.getPool(); if pool == nil { return }
CloseSnapshot(t) ==
    /\ Running /\ pc[t] = "idle" /\ mu = 0
    /\ IF cpPool = 0
       THEN Return(t, "close_noop")
       ELSE /\ snap' = [snap EXCEPT ![t] = cpPool]
            /\ Goto(t, "close_setcap")
            /\ UNCHANGED <<arg, expired, count, startGen>>
    /\ UNCHANGED <<cfg, cpPool, cpCmd, mu, rp, os, held, crashed>>

\* pool.Close() is SetCapacity(0): swap the capacity to 0, unless it is 0
\* already (the pool is closed or being closed: CLOSED_ERR, at once).
CloseSetCap(t) ==
    /\ Running /\ pc[t] = "close_setcap"
    /\ LET p == snap[t] IN
       IF rp[p].capacity = 0
       THEN /\ Goto(t, "close_lock")
            /\ UNCHANGED <<rp, count>>
       ELSE /\ rp' = [rp EXCEPT ![p].capacity = 0]
            /\ count' = [count EXCEPT ![t] = rp[p].capacity]
            /\ Goto(t, "close_drain")
    /\ UNCHANGED <<cfg, cpPool, cpCmd, mu, os, snap, arg, expired, startGen,
                   held, crashed>>

\* SetCapacity's loop: receive one wrapper (and close its resource); it
\* blocks while the channel is empty, that is until a Put.
CloseDrain(t) ==
    /\ Running /\ pc[t] = "close_drain"
    /\ count[t] > 0
    /\ Len(rp[snap[t]].ch) > 0
    /\ rp' = [rp EXCEPT ![snap[t]].ch = Tail(@)]
    /\ count' = [count EXCEPT ![t] = @ - 1]
    /\ ret' = NoRet
    /\ UNCHANGED <<cfg, cpPool, cpCmd, mu, os, pc, snap, arg, expired, startGen,
                   held, crashed>>

\* SetCapacity(0) after its loop: close(rp.resources); pool.Close() returns.
CloseChan(t) ==
    /\ Running /\ pc[t] = "close_drain"
    /\ count[t] = 0
    /\ rp' = [rp EXCEPT ![snap[t]].closed = TRUE]
    /\ Goto(t, "close_lock")
    /\ UNCHANGED <<cfg, cpPool, cpCmd, mu, os, locals, held, crashed>>

\* cp.mu.Lock() of Close's second phase.
CloseLock(t) ==
    /\ Running /\ pc[t] = "close_lock" /\ mu = 0
    /\ mu' = t
    /\ Goto(t, "close_cleanup")
    /\ UNCHANGED <<cfg, cpPool, cpCmd, rp, os, locals, held, crashed>>

\* CloseCleanup without `cp.pool = nil`.
CloseCleanupKeepsHandle(t) ==
    /\ Running /\ pc[t] = "close_cleanup"
    /\ IF cpPool = 0
       THEN /\ Return(t, "close_noop")
            /\ UNCHANGED <<os, cpPool>>
       ELSE /\ child' = [child EXCEPT ![cpCmd] =
                            IF @ \in {"started", "listening"} THEN "killed" ELSE @]
            /\ waiters' = waiters \cup {cpCmd}
            /\ sockFile' = IF usesSocket THEN FALSE ELSE sockFile
            /\ cpPool' = cpPool
            /\ Return(t, "closed")
    /\ mu' = 0
    /\ UNCHANGED <<cfg, cpCmd, rp, held, crashed>>

\* Close's second phase, under the lock: kill the child, spawn its reaper,
\* unlink the socket, clear the handle; the deferred Unlock runs.
CloseCleanup(t) ==
    /\ Running /\ pc[t] = "close_cleanup"
    /\ IF cpPool = 0
       THEN /\ Return(t, "close_noop")
            /\ UNCHANGED <<os, cpPool>>
       ELSE /\ child' = [child EXCEPT ![cpCmd] =
                            IF @ \in {"started", "listening"} THEN "killed" ELSE @]
            /\ waiters' = waiters \cup {cpCmd}
            /\ sockFile' = IF usesSocket THEN FALSE ELSE sockFile
            /\ cpPool' = 0
            /\ Return(t, "closed")
    /\ mu' = 0
    /\ UNCHANGED <<cfg, cpCmd, rp, held, crashed>>

\* The goroutine `go cp.cmd.Wait()` reaps the killed child.
Reap(c) ==
    /\ Running /\ c \in waiters /\ child[c] = "killed"
    /\ child' = [child EXCEPT ![c] = "reaped"]
    /\ waiters' = waiters \ {c}
    /\ ret' = NoRet
    /\ UNCHANGED <<cfg, cpPool, cpCmd, mu, rp, sockFile, pc, locals, held, crashed>>

\* --------------------------------------------------------------- IsClosed
IsClosed(t) ==
    /\ Running /\ pc[t] = "idle" /\ mu = 0
    /\ Return(t, IF cpPool = 0 THEN "is_closed" ELSE "is_open")
    /\ UNCHANGED <<cfg, cpPool, cpCmd, mu, rp, os, held, crashed>>

\* -------------------------------------------------------------------- Get
\* Get(timeout) up to its nil check: pool := cp.getPool(); nil is fatal.
GetSnapshot(t, timeout) ==
    /\ Running /\ pc[t] = "idle" /\ mu = 0
    /\ held[t] = NoHold
    /\ IF cpPool = 0
       THEN Fatal("pool_not_open")
       ELSE /\ snap' = [snap EXCEPT ![t] = cpPool]
            /\ arg' = [arg EXCEPT ![t] = timeout]
            /\ startGen' = [startGen EXCEPT ![t] =
                               IF rp[cpPool].closed THEN Len(rp) + 1 ELSE 0]
            /\ Goto(t, "get_recv")
            /\ UNCHANGED <<expired, count, crashed>>
    /\ UNCHANGED <<cfg, cpPool, cpCmd, mu, rp, os, held>>

\* The clock: the timeout a waiting Get was given runs out.
TimeoutElapse(t) ==
    /\ Running /\ pc[t] = "get_recv"
    /\ arg[t] > 0 /\ ~expired[t]
    /\ expired' = [expired EXCEPT ![t] = TRUE]
    /\ ret' = NoRet
    /\ UNCHANGED <<cfg, cpPool, cpCmd, mu, rp, os, pc, snap, arg, count, startGen,
                   held, crashed>>

\* GetRecv ignoring the error of a closed pool: it goes on to the factory.
GetRecvIgnoresClosed(t) ==
    /\ Running /\ pc[t] = "get_recv"
    /\ LET p == snap[t]
           ch == rp[p].ch
       IN
       /\ Len(ch) > 0 \/ rp[p].closed
       /\ \E fresh \in LiveChildren :
             /\ rp' = [rp EXCEPT ![p].ch = IF Len(ch) > 0 THEN Tail(ch) ELSE ch]
             /\ held' = [held EXCEPT ![t] = [from |-> p, conn |-> fresh]]
             /\ Return(t, "conn")
             /\ crashed' = crashed
    /\ UNCHANGED <<cfg, cpPool, cpCmd, mu, os>>

\* r, err := pool.Get(): receive a wrapper (blocking while the channel is
\* empty and open); an empty or idle-expired wrapper is refilled by the
\* factory (memcache.Connect); an error of either is fatal.
GetRecv(t) ==
    /\ Running /\ pc[t] = "get_recv"
    /\ LET p == snap[t]
           ch == rp[p].ch
       IN
       IF Len(ch) > 0
       THEN \E keep \in (IF Head(ch) # 0 THEN BOOLEAN ELSE {FALSE}) :
            \E fresh \in (IF keep THEN {Head(ch)} ELSE LiveChildren \cup {0}) :
               IF fresh # 0
               THEN /\ rp' = [rp EXCEPT ![p].ch = Tail(ch)]
                    /\ held' = [held EXCEPT ![t] = [from |-> p, conn |-> fresh]]
                    /\ Return(t, "conn")
                    /\ crashed' = crashed
               ELSE /\ rp' = [rp EXCEPT ![p].ch =
                                 IF rp[p].closed THEN Tail(ch) ELSE Append(Tail(ch), 0)]
                    /\ held' = held
                    /\ Fatal("get_error")
       ELSE /\ rp[p].closed
            /\ Fatal("pool_closed")
            /\ UNCHANGED <<rp, held>>
    /\ UNCHANGED <<cfg, cpPool, cpCmd, mu, os>>

\* -------------------------------------------------------------------- Put
\* Put(conn) up to its nil check of the pool: a closed pool ends the call.
\* nilConn: the caller closed its connection and passes nil.
PutSnapshot(t, nilConn) ==
    /\ Running /\ pc[t] = "idle" /\ mu = 0
    /\ held[t] # NoHold
    /\ IF cpPool = 0
       THEN /\ held' = [held EXCEPT ![t] = NoHold]
            /\ Return(t, "put_dropped")
       ELSE /\ snap' = [snap EXCEPT ![t] = cpPool]
            /\ arg' = [arg EXCEPT ![t] = IF nilConn THEN 0 ELSE held[t].conn]
            /\ Goto(t, "put_send")
            /\ UNCHANGED <<held, expired, count, startGen>>
    /\ UNCHANGED <<cfg, cpPool, cpCmd, mu, rp, os, crashed>>

\* PutSend returning on a nil connection without telling the pool.
PutSendDropsNil(t) ==
    /\ Running /\ pc[t] = "put_send"
    /\ LET p == snap[t] IN
       IF rp[p].closed
       THEN /\ Return(t, "panic_send_closed")
            /\ rp' = rp
       ELSE IF Len(rp[p].ch) >= rp[p].maxCap
       THEN /\ Return(t, "panic_pool_full")
            /\ rp' = rp
       ELSE /\ rp' = IF arg[t] = 0 THEN rp ELSE [rp EXCEPT ![p].ch = Append(@, arg[t])]
            /\ Return(t, "put")
    /\ held' = [held EXCEPT ![t] = NoHold]
    /\ UNCHANGED <<cfg, cpPool, cpCmd, mu, os, crashed>>

\* pool.Put(conn) / pool.Put(nil): a non-blocking send of the wrapper; it
\* panics on a full channel and on a closed one.
PutSend(t) ==
    /\ Running /\ pc[t] = "put_send"
    /\ LET p == snap[t] IN
       IF rp[p].closed
       THEN /\ Return(t, "panic_send_closed")
            /\ rp' = rp
       ELSE IF Len(rp[p].ch) >= rp[p].maxCap
       THEN /\ Return(t, "panic_pool_full")
            /\ rp' = rp
       ELSE /\ rp' = [rp EXCEPT ![p].ch = Append(@, arg[t])]
            /\ Return(t, "put")
    /\ held' = [held EXCEPT ![t] = NoHold]
    /\ UNCHANGED <<cfg, cpPool, cpCmd, mu, os, crashed>>

\* ------------------------------------------------------------ specifications
\* Open is called while the model still has a child to start.
OpenCall(t) ==
    /\ cpPool # 0 \/ ~binary \/ Len(child) < MaxOpens
    /\ OpenLock(t)

\* The steps of the call a thread is in.
CallStep(t) ==
    \/ OpenRejected(t)
    \/ OpenStart(t)
    \/ Probe(t)
    \/ OpenFinish(t)
    \/ CloseSetCap(t)
    \/ CloseDrain(t)
    \/ CloseChan(t)
    \/ CloseLock(t)
    \/ CloseCleanup(t)
    \/ TimeoutElapse(t)
    \/ GetRecv(t)
    \/ PutSend(t)

\* The calls of the pool's clients.
ClientCall(t) ==
    \/ IsClosed(t)
    \/ \E timeout \in {0, 1} : GetSnapshot(t, timeout)
    \/ \E nilConn \in BOOLEAN : PutSnapshot(t, nilConn)

Environment ==
    \/ \E c \in 1..MaxOpens : ChildListen(c)
    \/ \E c \in 1..MaxOpens : Reap(c)

\* Open and Close are called by the pool's owner, one call at a time; the
\* other threads are its clients.
PoolNext ==
    \/ OpenCall(Owner)
    \/ CloseSnapshot(Owner)
    \/ \E t \in Threads \ {Owner} : ClientCall(t)
    \/ \E t \in Threads : CallStep(t)
    \/ Environment

\* Every thread calls everything, concurrently.
RaceNext ==
    \/ \E t \in Threads : OpenCall(t)
    \/ \E t \in Threads : CloseSnapshot(t)
    \/ \E t \in Threads : ClientCall(t)
    \/ \E t \in Threads : CallStep(t)
    \/ Environment

Spec == PoolInit /\ [][PoolNext]_vars

RaceSpec == PoolInit /\ [][RaceNext]_vars

\* =================================================================== tables
\* ------------------------------------------------------------------ bounds
MaxCols == 2
MaxIndexes == 2
MaxPKLen == 2

ColNames == {"a", "b", "c"}
IndexNames == {"PRIMARY", "idx1", "idx2"}
SqlTypes == {"int", "varchar", "datetime"}

poolVars == <<binary, usesSocket, cpCapacity, cpPool, cpCmd, mu, rp, os, pc,
              locals, held, ret, crashed, confVars, prefixVars, planVars>>
loadArgs == <<tableType, comment>>

\* The table types and comments NewTableInfo is called with. A comment is
\* the sequence of its characters.
TableTypes == {"BASE TABLE", "VIEW"}
NoCacheMarker == <<"v", "t", "o", "c", "c", "_", "n", "o", "c", "a", "c", "h", "e">>
Comments ==
    {<<>>,
     <<"x", " ">> \o NoCacheMarker \o <<" ", "y">>,
     SubSeq(NoCacheMarker, 1, Len(NoCacheMarker) - 1) \o <<"_">>}

\* The sequences over S of length lo..hi without a repeated element.
DistinctSeqs(S, lo, hi) ==
    UNION {{q \in [1..n -> S] : \A i, j \in 1..n : i # j => q[i] # q[j]} : n \in lo..hi}

Range(q) == {q[i] : i \in 1..Len(q)}

\* ------------------------------------------------------------ schema package
\* Table.AddColumn's category of a SQL type.
CategoryOf(sqlType) ==
    CASE sqlType = "int" -> "number"
      [] sqlType = "varchar" -> "varbinary"
      [] OTHER -> "other"

\* Table.FindColumn: the position (from 0) of the first column of that
\* name, -1 if there is none.
FindColumn(columns, name) ==
    IF \E i \in 1..Len(columns) : columns[i].Name = name
    THEN (CHOOSE i \in 1..Len(columns) :
             /\ columns[i].Name = name
             /\ \A j \in 1..(i - 1) : columns[j].Name # name) - 1
    ELSE -1

NewIndex(name) ==
    [Name |-> name, Columns |-> <<>>, Cardinality |-> <<>>, DataColumns |-> <<>>]

\* Index.AddColumn: a cardinality of 0 becomes the column's position.
IndexAddColumn(index, name, cardinality) ==
    [index EXCEPT !.Columns = Append(@, name),
                  !.Cardinality = Append(@, IF cardinality = 0
                                            THEN Len(index.Cardinality) + 1
                                            ELSE cardinality)]

\* Index.FindDataColumn: the position (from 0) in DataColumns, -1 if absent.
FindDataColumn(index, name) ==
    IF \E i \in 1..Len(index.DataColumns) : index.DataColumns[i] = name
    THEN (CHOOSE i \in 1..Len(index.DataColumns) :
             /\ index.DataColumns[i] = name
             /\ \A j \in 1..(i - 1) : index.DataColumns[j] # name) - 1
    ELSE -1

ColumnNames(columns) == [i \in 1..Len(columns) |-> columns[i].Name]

\* ------------------------------------------------------------- fetchIndexes
\* The loop over the rows of `show index`: a row whose index name differs
\* from the previous row's starts a new index; the row's column is added to
\* the current index, which is the last one added.
RECURSIVE IndexRows(_, _, _)
IndexRows(indexes, rows, currentName) ==
    IF rows = <<>> THEN indexes
    ELSE LET row == Head(rows)
             added == IF currentName # row.name
                      THEN Append(indexes, NewIndex(row.name))
                      ELSE indexes
             filled == [added EXCEPT ![Len(added)] =
                           IndexAddColumn(@, row.col, row.cardinality)]
         IN IndexRows(filled, Tail(rows), row.name)

\* The inner loop over pkIndex.Columns: append each PK column that
\* FindDataColumn does not find.
RECURSIVE AppendPKColumns(_, _)
AppendPKColumns(index, pkCols) ==
    IF pkCols = <<>> THEN index
    ELSE AppendPKColumns(
             IF FindDataColumn(index, Head(pkCols)) # -1 THEN index
             ELSE [index EXCEPT !.DataColumns = Append(@, Head(pkCols))],
             Tail(pkCols))

\* FetchIndexes without the loop that extends the primary index's DataColumns.
FetchIndexesBarePrimary(t, rows) ==
    LET indexes == IndexRows(t.Indexes, rows, "")
        loaded == [t EXCEPT !.Indexes = indexes]
    IN
    IF Len(indexes) = 0 THEN loaded
    ELSE IF indexes[1].Name # "PRIMARY" THEN loaded
    ELSE LET pkIndex == indexes[1]
         IN [loaded EXCEPT
               !.PKNil = FALSE,
               !.PKColumns = [i \in 1..Len(pkIndex.Columns) |->
                                 FindColumn(t.Columns, pkIndex.Columns[i])],
               !.Indexes = [i \in 1..Len(indexes) |->
                               IF i = 1 THEN pkIndex
                               ELSE AppendPKColumns(
                                        [indexes[i] EXCEPT !.DataColumns =
                                            @ \o indexes[i].Columns],
                                        pkIndex.Columns)]]

\* fetchIndexes after a successful `show index`.
FetchIndexes(t, rows) ==
    LET indexes == IndexRows(t.Indexes, rows, "")
        loaded == [t EXCEPT !.Indexes = indexes]
    IN
    IF Len(indexes) = 0 THEN loaded
    ELSE IF indexes[1].Name # "PRIMARY" THEN loaded
    ELSE LET pkIndex == indexes[1]
             pkFull == [pkIndex EXCEPT !.DataColumns = @ \o ColumnNames(t.Columns)]
         IN [loaded EXCEPT
               !.PKNil = FALSE,
               !.PKColumns = [i \in 1..Len(pkIndex.Columns) |->
                                 FindColumn(t.Columns, pkIndex.Columns[i])],
               !.Indexes = [i \in 1..Len(indexes) |->
                               IF i = 1 THEN pkFull
                               ELSE AppendPKColumns(
                                        [indexes[i] EXCEPT !.DataColumns =
                                            @ \o indexes[i].Columns],
                                        pkIndex.Columns)]]

\* -------------------------------------------------------------------- SetPK
\* SetPK without `ti.PKColumns = colnums`.
SetPKKeepsColnums(t, colnames) ==
    LET colnums == [i \in 1..Len(colnames) |-> FindColumn(t.Columns, colnames[i])]
        pkIndex == [Name |-> "PRIMARY",
                    Columns |-> colnames,
                    Cardinality |-> [i \in 1..Len(colnames) |-> 1],
                    DataColumns |-> ColumnNames(t.Columns)]
    IN
    IF \E i \in 1..Len(colnames) : colnums[i] = -1
    THEN [err |-> "column_not_found", table |-> t]
    ELSE [err |-> "ok",
          table |-> [t EXCEPT
              !.Indexes = IF Len(t.Indexes) = 0 THEN <<pkIndex>>
                          ELSE IF t.Indexes[1].Name # "PRIMARY"
                          THEN <<pkIndex>> \o t.Indexes
                          ELSE [t.Indexes EXCEPT ![1] = pkIndex]]]

\* SetPK storing colnums before it has looked up every name.
SetPKFailsDirty(t, colnames) ==
    LET colnums == [i \in 1..Len(colnames) |-> FindColumn(t.Columns, colnames[i])]
        pkIndex == [Name |-> "PRIMARY",
                    Columns |-> colnames,
                    Cardinality |-> [i \in 1..Len(colnames) |-> 1],
                    DataColumns |-> ColumnNames(t.Columns)]
    IN
    IF \E i \in 1..Len(colnames) : colnums[i] = -1
    THEN [err |-> "column_not_found",
          table |-> [t EXCEPT !.PKColumns = colnums, !.PKNil = FALSE]]
    ELSE [err |-> "ok",
          table |-> [t EXCEPT
              !.Indexes = IF Len(t.Indexes) = 0 THEN <<pkIndex>>
                          ELSE IF t.Indexes[1].Name # "PRIMARY"
                          THEN <<pkIndex>> \o t.Indexes
                          ELSE [t.Indexes EXCEPT ![1] = pkIndex],
              !.PKColumns = colnums,
              !.PKNil = FALSE]]

\* SetPK without the test for a PRIMARY at position 0: the new index is
\* always inserted in front.
SetPKAlwaysInserts(t, colnames) ==
    LET colnums == [i \in 1..Len(colnames) |-> FindColumn(t.Columns, colnames[i])]
        pkIndex == [Name |-> "PRIMARY",
                    Columns |-> colnames,
                    Cardinality |-> [i \in 1..Len(colnames) |-> 1],
                    DataColumns |-> ColumnNames(t.Columns)]
    IN
    IF \E i \in 1..Len(colnames) : colnums[i] = -1
    THEN [err |-> "column_not_found", table |-> t]
    ELSE [err |-> "ok",
          table |-> [t EXCEPT
              !.Indexes = <<pkIndex>> \o t.Indexes,
              !.PKColumns = colnums,
              !.PKNil = FALSE]]

\* SetPK(colnames): "ok" and the table it leaves, or the error and the
\* table as it was.
SetPK(t, colnames) ==
    LET colnums == [i \in 1..Len(colnames) |-> FindColumn(t.Columns, colnames[i])]
        pkIndex == [Name |-> "PRIMARY",
                    Columns |-> colnames,
                    Cardinality |-> [i \in 1..Len(colnames) |-> 1],
                    DataColumns |-> ColumnNames(t.Columns)]
    IN
    IF \E i \in 1..Len(colnames) : colnums[i] = -1
    THEN [err |-> "column_not_found", table |-> t]
    ELSE [err |-> "ok",
          table |-> [t EXCEPT
              !.Indexes = IF Len(t.Indexes) = 0 THEN <<pkIndex>>
                          ELSE IF t.Indexes[1].Name # "PRIMARY"
                          THEN <<pkIndex>> \o t.Indexes
                          ELSE [t.Indexes EXCEPT ![1] = pkIndex],
              !.PKColumns = colnums,
              !.PKNil = FALSE]]

\* ------------------------------------------------------------- initRowCache
\* strings.Contains(s, sub).
Contains(s, sub) ==
    \E i \in 0..(Len(s) - Len(sub)) : SubSeq(s, i + 1, i + Len(sub)) = sub

\* InitRowCache without the test of the table type.
InitRowCacheCachesViews(t, type, cmt, isClosed) ==
    IF isClosed THEN t
    ELSE IF Contains(cmt, NoCacheMarker) THEN t
    ELSE IF t.PKNil THEN t
    ELSE IF \E i \in 1..Len(t.PKColumns) :
               t.Columns[t.PKColumns[i] + 1].Category = "other" THEN t
    ELSE [t EXCEPT !.CacheType = "read-write", !.Cache = TRUE]

\* initRowCache: the table with its CacheType and Cache as the call leaves
\* them; isClosed is cachePool.IsClosed().
InitRowCache(t, type, cmt, isClosed) ==
    IF isClosed THEN t
    ELSE IF Contains(cmt, NoCacheMarker) THEN t
    ELSE IF type = "VIEW" THEN t
    ELSE IF t.PKNil THEN t
    ELSE IF \E i \in 1..Len(t.PKColumns) :
               t.Columns[t.PKColumns[i] + 1].Category = "other" THEN t
    ELSE [t EXCEPT !.CacheType = "read-write", !.Cache = TRUE]

\* ---------------------------------------------------------- the backend's rows
\* The column lists `describe` can return: distinct names, each with a type.
DescribeRows ==
    {[i \in 1..Len(names) |-> [Name |-> names[i], Type |-> types[i]]] :
        <<names, types>> \in
            UNION {DistinctSeqs(ColNames, n, n) \X [1..n -> SqlTypes] : n \in 1..MaxCols}}

\* The indexes `show index` can describe for these columns: distinct index
\* names, PRIMARY first if the table has one, each over distinct columns of
\* the table.
IndexLists(columns) ==
    LET names == DistinctSeqs(IndexNames, 0, MaxIndexes)
        cols == DistinctSeqs(Range(ColumnNames(columns)), 1, MaxCols)
    IN UNION {{[i \in 1..Len(ns) |-> [name |-> ns[i], cols |-> cs[i]]] :
                  cs \in [1..Len(ns) -> cols]} :
              ns \in {q \in names : \A i \in 2..Len(q) : q[i] # "PRIMARY"}}

\* The rows of `show index` for a list of indexes: one row per index column,
\* grouped by index, in sequence order.
RECURSIVE ShowIndexRows(_)
ShowIndexRows(list) ==
    IF list = <<>> THEN <<>>
    ELSE [i \in 1..Len(Head(list).cols) |->
             [name |-> Head(list).name, col |-> Head(list).cols[i], cardinality |-> 0]]
         \o ShowIndexRows(Tail(list))

\* ------------------------------------------------------------------ actions
\* NewTableInfo is called with a table type, a comment and a cache pool
\* that is disabled (no binary, never opened) or open.
TableInit ==
    /\ ti = NewTable
    /\ tstep = "new"
    /\ tret = "none"
    /\ targ = <<>>
    /\ tableType \in TableTypes
    /\ comment \in Comments
    /\ usesSocket = FALSE /\ mu = 0 /\ waiters = {} /\ sockFile = FALSE
    /\ PrefixIdle
    /\ cfgConnections = ReservedConnections + 1
    /\ queryTimeout = 0
    /\ deleteExpiry = 0
    /\ built = TRUE
    /\ val = NoVal
    /\ \/ /\ binary = FALSE /\ cpCapacity = 0
          /\ cpPool = 0 /\ cpCmd = 0 /\ rp = <<>> /\ child = <<>>
       \/ /\ binary = TRUE
          /\ cpCapacity = NewCachePool(TRUE, cfgConnections).capacity
          /\ rp = <<NewResourcePool(cpCapacity, cpCapacity)>>
          /\ child = <<"listening">>
          /\ cpPool = 1 /\ cpCmd = 1
    /\ pc = [t \in Threads |-> "idle"]
    /\ snap = [t \in Threads |-> 0]
    /\ held = [t \in Threads |-> NoHold]
    /\ arg = [t \in Threads |-> 0]
    /\ expired = [t \in Threads |-> FALSE]
    /\ count = [t \in Threads |-> 0]
    /\ startGen = [t \in Threads |-> 0]
    /\ ret = NoRet
    /\ crashed = "none"

\* fetchColumns: one AddColumn per row of `describe`.
FetchColumnsStep(rows) ==
    /\ tstep = "new"
    /\ ti' = [ti EXCEPT !.Columns =
                 [i \in 1..Len(rows) |->
                     [Name |-> rows[i].Name, Category |-> CategoryOf(rows[i].Type)]]]
    /\ tstep' = "columns"
    /\ UNCHANGED <<tret, targ, loadArgs, poolVars>>

\* fetchIndexes; loadTableInfo returns the table.
FetchIndexesStep(list) ==
    /\ tstep = "columns"
    /\ ti' = FetchIndexes(ti, ShowIndexRows(list))
    /\ tstep' = "loaded"
    /\ UNCHANGED <<tret, targ, loadArgs, poolVars>>

\* A backend error in either query: loadTableInfo returns no table.
LoadFails ==
    /\ tstep \in {"new", "columns"}
    /\ ti' = NewTable
    /\ tstep' = "failed"
    /\ UNCHANGED <<tret, targ, loadArgs, poolVars>>

\* NewTableInfo after loadTableInfo: initRowCache, then the table is returned.
InitRowCacheStep ==
    /\ tstep = "loaded"
    /\ ti' = InitRowCache(ti, tableType, comment, cpPool = 0)
    /\ tstep' = "ready"
    /\ UNCHANGED <<tret, targ, loadArgs, poolVars>>

\* A call of SetPK on the table NewTableInfo returned; NewTableInfo's
\* arguments are gone by then.
SetPKStep(colnames) ==
    /\ tstep \in {"ready", "pk_set"}
    /\ LET r == SetPK(ti, colnames) IN
       /\ ti' = r.table
       /\ tret' = r.err
       /\ tstep' = IF r.err = "ok" THEN "pk_set" ELSE tstep
    /\ targ' = colnames
    /\ tableType' = ""
    /\ comment' = <<>>
    /\ UNCHANGED poolVars

TableNext ==
    \/ \E rows \in DescribeRows : FetchColumnsStep(rows)
    \/ \E list \in IndexLists(ti.Columns) : FetchIndexesStep(list)
    \/ LoadFails
    \/ InitRowCacheStep
    \/ \E colnames \in DistinctSeqs(ColNames, 0, MaxPKLen) : SetPKStep(colnames)

TableSpec == TableInit /\ [][TableNext]_vars

\* ============================================================ configuration
\* The values of rowCacheConfig.Connections: unspecified (zero or less), too
\* few, and enough for a capacity of 1..MaxCap.
ConnectionValues ==
    {-1, 0, 1, ReservedConnections - 1, ReservedConnections}
        \cup (ReservedConnections + 1)..(ReservedConnections + MaxCap)

\* The query timeouts NewCachePool is given: none, below a second, whole
\* seconds and in between.
QueryTimeouts ==
    {0, Second \div 2, Second - 1, Second, Second + Second \div 2, 2 * Second}

\* The thread that reads the pool's counters while the owner opens and
\* closes it.
Observer == CHOOSE t \in Threads : t # Owner

\* Before NewCachePool: the configuration is given, there is no pool yet.
ConfigInit ==
    /\ TableIdle
    /\ PrefixIdle
    /\ binary \in BOOLEAN
    /\ usesSocket = FALSE
    /\ cfgConnections \in ConnectionValues
    /\ queryTimeout \in QueryTimeouts
    /\ cpCapacity = 0
    /\ deleteExpiry = 0
    /\ built = FALSE
    /\ val = NoVal
    /\ cpPool = 0
    /\ cpCmd = 0
    /\ mu = 0
    /\ rp = <<>>
    /\ child = <<>>
    /\ waiters = {}
    /\ sockFile = FALSE
    /\ pc = [t \in Threads |-> "idle"]
    /\ snap = [t \in Threads |-> 0]
    /\ held = [t \in Threads |-> NoHold]
    /\ arg = [t \in Threads |-> 0]
    /\ expired = [t \in Threads |-> FALSE]
    /\ count = [t \in Threads |-> 0]
    /\ startGen = [t \in Threads |-> 0]
    /\ ret = NoRet
    /\ crashed = "none"

\* NewCachePool: too few connections end the process, otherwise the pool
\* is returned with its capacity and DeleteExpiry set.
NewCachePoolStep ==
    /\ Running /\ ~built
    /\ IF NewCachePool(binary, cfgConnections).fatal
       THEN /\ crashed' = "insufficient_capacity"
            /\ UNCHANGED <<built, cpCapacity, deleteExpiry>>
       ELSE /\ built' = TRUE
            /\ cpCapacity' = NewCachePool(binary, cfgConnections).capacity
            /\ deleteExpiry' = DeleteExpiryOf(binary, queryTimeout)
            /\ crashed' = crashed
    /\ ret' = NoRet
    /\ UNCHANGED <<binary, usesSocket, tableVars, prefixVars, planVars,
                   cfgConnections, queryTimeout, val, cpPool, cpCmd, mu, rp, os,
                   pc, locals, held>>

\* What a step of Capacity() or MaxCap() leaves alone.
counterFrame == <<binary, usesSocket, cpCapacity, tableVars, prefixVars, planVars,
                  cfgConnections, queryTimeout, deleteExpiry, built,
                  cpPool, cpCmd, mu, rp, os, held, crashed>>

\* Capacity(): pool := cp.getPool(); a nil pool reports 0.
CapacitySnapshot(t) ==
    /\ Running /\ built /\ pc[t] = "idle" /\ mu = 0
    /\ IF cpPool = 0
       THEN /\ Return(t, "capacity")
            /\ val' = NoVal
       ELSE /\ snap' = [snap EXCEPT ![t] = cpPool]
            /\ Goto(t, "capacity_read")
            /\ UNCHANGED <<arg, expired, count, startGen, val>>
    /\ UNCHANGED counterFrame

\* return pool.Capacity(): the resource pool's current capacity.
CapacityRead(t) ==
    /\ Running /\ pc[t] = "capacity_read"
    /\ val' = [from |-> snap[t], n |-> rp[snap[t]].capacity]
    /\ Return(t, "capacity")
    /\ UNCHANGED counterFrame

\* MaxCap(): pool := cp.getPool(); a nil pool reports 0.
MaxCapSnapshot(t) ==
    /\ Running /\ built /\ pc[t] = "idle" /\ mu = 0
    /\ IF cpPool = 0
       THEN /\ Return(t, "maxcap")
            /\ val' = NoVal
       ELSE /\ snap' = [snap EXCEPT ![t] = cpPool]
            /\ Goto(t, "maxcap_read")
            /\ UNCHANGED <<arg, expired, count, startGen, val>>
    /\ UNCHANGED counterFrame

\* return pool.MaxCap().
MaxCapRead(t) ==
    /\ Running /\ pc[t] = "maxcap_read"
    /\ val' = [from |-> snap[t], n |-> rp[snap[t]].maxCap]
    /\ Return(t, "maxcap")
    /\ UNCHANGED counterFrame

\* The pool is configured and built, its owner opens and closes it, and
\* another thread reads its counters meanwhile.
ConfigNext ==
    \/ NewCachePoolStep
    \/ built /\ OpenCall(Owner)
    \/ built /\ CloseSnapshot(Owner)
    \/ OpenRejected(Owner)
    \/ OpenStart(Owner)
    \/ Probe(Owner)
    \/ OpenFinish(Owner)
    \/ CloseSetCap(Owner)
    \/ CloseDrain(Owner)
    \/ CloseChan(Owner)
    \/ CloseLock(Owner)
    \/ CloseCleanup(Owner)
    \/ CapacitySnapshot(Observer)
    \/ CapacityRead(Observer)
    \/ MaxCapSnapshot(Observer)
    \/ MaxCapRead(Observer)
    \/ Environment

ConfigSpec == ConfigInit /\ [][ConfigNext]_vars

\* ================================================================== prefixes
MaxPrefixCalls == 5

\* GetMaxPrefix as a load followed by a store that another thread's store
\* can overwrite: the owner's increment is lost.
GetMaxPrefixLostUpdate(t) ==
    /\ maxPrefix < MaxPrefixCalls
    /\ maxPrefix' = IF t = Owner THEN maxPrefix ELSE maxPrefix + 1
    /\ prefixes' = [prefixes EXCEPT ![t] = Append(@, maxPrefix + 1)]
    /\ UNCHANGED planVars
    /\ UNCHANGED <<binary, usesSocket, cpCapacity, tableVars, confVars,
                   cpPool, cpCmd, mu, rp, os, pc, locals, held, ret, crashed>>

\* GetMaxPrefix: maxPrefix.Add(1), one atomic step that returns the new value.
GetMaxPrefix(t) ==
    /\ maxPrefix < MaxPrefixCalls
    /\ maxPrefix' = maxPrefix + 1
    /\ prefixes' = [prefixes EXCEPT ![t] = Append(@, maxPrefix + 1)]
    /\ UNCHANGED planVars
    /\ UNCHANGED <<binary, usesSocket, cpCapacity, tableVars, confVars,
                   cpPool, cpCmd, mu, rp, os, pc, locals, held, ret, crashed>>

PrefixNext == \E t \in Threads : GetMaxPrefix(t)

PrefixSpec == PoolInit /\ [][PrefixNext]_vars

\* ================================================================== planning
\* The kinds of AST root sqlparser.Parse returns: the eight analyzeSQL
\* names, and Replace, which the query generators take but analyzeSQL
\* does not name.
StmtKinds == {"union", "select", "insert", "update", "delete", "set", "ddl",
              "other", "replace"}

\* A parsed statement: its kind, the table it names (known to the
\* TableGetter or not) and whether it carries bind variables.
Statements == [kind : StmtKinds, table : {"t", "missing"}, bindVars : BOOLEAN]

\* getTable(tableName): found or not.
GetTable(tableName) == tableName = "t"

\* GenerateFieldQuery: nil when the statement has bind variables.
GenerateFieldQuery(s) == IF s.bindVars THEN "nil" ELSE "field"

\* GenerateFullQuery: the statement printed.
GenerateFullQuery(s) == "full"

\* The plans an analyser of the planbuilder package can return for a
\* statement on a known table.
AnalyserPlanIds(kind) ==
    CASE kind = "select" -> {"pass-select", "pk-equal", "pk-in", "select-subquery"}
      [] kind = "insert" -> {"pass-dml", "insert-pk", "insert-subquery"}
      [] kind \in {"update", "delete"} -> {"pass-dml", "dml-pk", "dml-subquery"}
      [] kind = "set" -> {"set"}
      [] kind = "ddl" -> {"ddl"}
      [] OTHER -> {}

\* analyzeSelect, analyzeInsert, analyzeUpdate, analyzeDelete: one lookup
\* of the table; an unknown table is an error, a known one gives a plan.
Analyser(name, s) ==
    IF ~GetTable(s.table)
    THEN {[plan |-> NilPlan, err |-> "table not found in schema", lookups |-> 1]}
    ELSE {[plan |-> [PlanId |-> id, Reason |-> "default",
                     FieldQuery |-> GenerateFieldQuery(s),
                     FullQuery |-> GenerateFullQuery(s), via |-> name],
           err |-> "nil", lookups |-> 1] : id \in AnalyserPlanIds(s.kind)}

\* analyzeSet and analyzeDDL return a plan and no error; analyzeSet is not
\* given the TableGetter, analyzeDDL is and may use it.
AnalyserNoError(name, s, ns) ==
    {[plan |-> [PlanId |-> id, Reason |-> "default", FieldQuery |-> "nil",
                FullQuery |-> GenerateFullQuery(s), via |-> name],
      err |-> "nil", lookups |-> n] : id \in AnalyserPlanIds(s.kind), n \in ns}

\* analyzeSQL with a Union handed to analyzeSelect like any select statement.
AnalyzeSQLUnionAsSelect(s) ==
    CASE s.kind \in {"union", "select"} -> Analyser("analyzeSelect", [s EXCEPT !.kind = "select"])
      [] s.kind = "insert" -> Analyser("analyzeInsert", s)
      [] s.kind = "update" -> Analyser("analyzeUpdate", s)
      [] s.kind = "delete" -> Analyser("analyzeDelete", s)
      [] s.kind = "set" -> AnalyserNoError("analyzeSet", s, {0})
      [] s.kind = "ddl" -> AnalyserNoError("analyzeDDL", s, {0, 1})
      [] s.kind = "other" ->
            {[plan |-> [NilPlan EXCEPT !.PlanId = "other"], err |-> "nil",
              lookups |-> 0]}
      [] OTHER -> {[plan |-> NilPlan, err |-> "invalid SQL", lookups |-> 0]}

\* analyzeSQL: the results the type switch can give for a statement.
AnalyzeSQL(s) ==
    CASE s.kind = "union" ->
            {[plan |-> [PlanId |-> "pass-select", Reason |-> "select",
                        FieldQuery |-> GenerateFieldQuery(s),
                        FullQuery |-> GenerateFullQuery(s), via |-> ""],
              err |-> "nil", lookups |-> 0]}
      [] s.kind = "select" -> Analyser("analyzeSelect", s)
      [] s.kind = "insert" -> Analyser("analyzeInsert", s)
      [] s.kind = "update" -> Analyser("analyzeUpdate", s)
      [] s.kind = "delete" -> Analyser("analyzeDelete", s)
      [] s.kind = "set" -> AnalyserNoError("analyzeSet", s, {0})
      [] s.kind = "ddl" -> AnalyserNoError("analyzeDDL", s, {0, 1})
      [] s.kind = "other" ->
            {[plan |-> [NilPlan EXCEPT !.PlanId = "other"], err |-> "nil",
              lookups |-> 0]}
      [] OTHER -> {[plan |-> NilPlan, err |-> "invalid SQL", lookups |-> 0]}

\* What no step of GetExecPlan changes.
planFrame == <<binary, usesSocket, cpCapacity, tableVars, confVars, maxPrefix,
               prefixes, cpPool, cpCmd, mu, rp, os, pc, locals, held, ret, crashed,
               genVars>>

\* GetExecPlan is called with no pool, no table load and no prefix in play.
PlanInit ==
    /\ PoolInit
    /\ ~binary /\ ~usesSocket
    /\ cfgConnections = ReservedConnections + 1

\* sqlparser.Parse(sql) succeeds with a statement.
ParseStep(s) ==
    /\ pstep = "sql"
    /\ stmt' = s
    /\ pstep' = "parsed"
    /\ UNCHANGED <<plan, perr, lookups, planFrame>>

\* sqlparser.Parse(sql) fails: GetExecPlan returns nil and the error.
ParseFails ==
    /\ pstep = "sql"
    /\ perr' = "parse error"
    /\ pstep' = "returned"
    /\ UNCHANGED <<stmt, plan, lookups, planFrame>>

\* plan, err = analyzeSQL(statement, getTable).
AnalyzeSQLStep ==
    /\ pstep = "parsed"
    /\ \E r \in AnalyzeSQL(stmt) :
          /\ plan' = r.plan
          /\ perr' = r.err
          /\ lookups' = r.lookups
    /\ pstep' = "analysed"
    /\ UNCHANGED <<stmt, planFrame>>

\* GetExecPlan returns analyzeSQL's plan, or nil and its error.
GetExecPlanReturn ==
    /\ pstep = "analysed"
    /\ pstep' = "returned"
    /\ UNCHANGED <<stmt, plan, perr, lookups, planFrame>>

PlanNext ==
    \/ \E s \in Statements : ParseStep(s)
    \/ ParseFails
    \/ AnalyzeSQLStep
    \/ GetExecPlanReturn

PlanSpec == PlanInit /\ [][PlanNext]_vars

\* ---------------------------------------------------------- limit injection
\* execLimit: the one Limit node with bind name :#maxLimit.
execLimit == [set |-> TRUE, Offset |-> "", Rowcount |-> ":#maxLimit"]

\* The LIMIT clauses a parsed SELECT can carry: none, a row count, or an
\* offset and a row count.
Rowcounts == {"1", "2"}
UserLimits == [set : {TRUE}, Offset : {"", "7"}, Rowcount : Rowcounts]
SelectNodes == [table : {"a", "b"}, Limit : {NilLimit} \cup UserLimits]

\* The sqlparser.SelectStatement values: *Select and *Union.
SelectStatements ==
    [kind : {"select"}, Left : SelectNodes, Right : {NoSelect}]
      \cup [kind : {"union"}, Left : SelectNodes, Right : SelectNodes]

\* (*Limit).Format: nothing for a nil Limit.
FormatLimit(l) ==
    IF ~l.set THEN <<>>
    ELSE <<"limit">> \o (IF l.Offset # "" THEN <<l.Offset, ",">> ELSE <<>>)
                     \o <<l.Rowcount>>

\* (*Select).Format.
FormatSelect(n) == <<"select", "*", "from", n.table>> \o FormatLimit(n.Limit)

\* buf.Myprintf("%v", selStmt).
FormatStatement(s) ==
    IF s.kind = "select" THEN FormatSelect(s.Left)
    ELSE FormatSelect(s.Left) \o <<"union">> \o FormatSelect(s.Right)

\* What no step of GenerateSelectLimitQuery changes.
genFrame == <<binary, usesSocket, cpCapacity, tableVars, confVars, maxPrefix,
              prefixes, cpPool, cpCmd, mu, rp, os, pc, locals, held, ret, crashed,
              stmt, plan, perr, lookups, pstep>>

\* GenerateSelectLimitQuery(selStmt, alloc) is called.
GenerateSelectLimitQueryCall(s) ==
    /\ gstep = "idle"
    /\ selStmt' = s
    /\ selStmt0' = s
    /\ deferred' = FALSE
    /\ query' = <<>>
    /\ gstep' = "entered"
    /\ UNCHANGED genFrame

\* A *Select without a Limit gets execLimit and a deferred reset.
InjectLimit ==
    /\ gstep = "entered"
    /\ IF selStmt.kind = "select" /\ ~selStmt.Left.Limit.set
       THEN /\ selStmt' = [selStmt EXCEPT !.Left.Limit = execLimit]
            /\ deferred' = TRUE
       ELSE UNCHANGED <<selStmt, deferred>>
    /\ gstep' = "checked"
    /\ UNCHANGED <<selStmt0, query, genFrame>>

\* buf.Myprintf("%v", selStmt).
PrintStatement ==
    /\ gstep = "checked"
    /\ query' = FormatStatement(selStmt)
    /\ gstep' = "printed"
    /\ UNCHANGED <<selStmt, selStmt0, deferred, genFrame>>

\* GenerateSelectLimitQuery returning with its deferred reset forgotten.
ReturnQueryNoReset ==
    /\ gstep = "printed"
    /\ gstep' = "returned"
    /\ UNCHANGED <<selStmt, selStmt0, deferred, query, genFrame>>

\* return buf.ParsedQuery(), then the deferred sel.Limit = nil.
ReturnQuery ==
    /\ gstep = "printed"
    /\ selStmt' = IF deferred THEN [selStmt EXCEPT !.Left.Limit = NilLimit]
                  ELSE selStmt
    /\ gstep' = "returned"
    /\ UNCHANGED <<selStmt0, deferred, query, genFrame>>

LimitNext ==
    \/ \E s \in SelectStatements : GenerateSelectLimitQueryCall(s)
    \/ InjectLimit
    \/ PrintStatement
    \/ ReturnQuery

LimitSpec == PlanInit /\ [][LimitNext]_vars

\* =============================================================== properties
\* The threads that hold a connection obtained from pool p.
Holders(p) == {t \in Threads : held[t].from = p}

\* The scheduling the Go runtime gives: every thread that can take a step
\* of its call takes one; a receiver waiting on a channel is handed a
\* wrapper that is sent (the channel's waiters are served in order); and
\* every client that got a connection calls Put ("You must call Put after
\* Get").
Fairness ==
    /\ \A t \in Threads : WF_vars(CallStep(t))
    /\ \A t \in Threads : SF_vars(CloseDrain(t))
    /\ \A t \in Threads : WF_vars(\E nilConn \in BOOLEAN : PutSnapshot(t, nilConn))

LiveSpec == PoolInit /\ [][PoolNext]_vars /\ Fairness

\* C1: Close does not hold cp.mu while it closes and drains the resource
\* pool, every Put that has taken its snapshot completes, and a Close that
\* has taken its snapshot returns with cp.pool cleared (unless the process
\* has exited meanwhile).
C1_CloseDrainsUnlocked ==
    /\ [](\A t \in Threads : pc[t] \in {"close_setcap", "close_drain"} => mu # t)
    /\ \A t \in Threads :
          (pc[t] = "put_send") ~> (pc[t] = "idle" \/ ~Running)
    /\ \A t \in Threads :
          (pc[t] = "close_setcap")
             ~> ((ret = [t |-> t, out |-> "closed"] /\ cpPool = 0) \/ ~Running)

\* A Close is draining a pool while a connection of it is outstanding.
C1_Witness ==
    \E t \in Threads :
        /\ pc[t] = "close_drain" /\ count[t] > 0
        /\ Len(rp[snap[t]].ch) = 0
        /\ \E u \in Threads : pc[u] = "put_send" /\ snap[u] = snap[t]

\* C2: on an open pool at most Capacity callers hold a connection obtained
\* from Get, and the wrappers left in the pool plus the connections held
\* never exceed Capacity: once Capacity connections are held the channel is
\* empty, so the next Get waits until a Put sends a wrapper.
C2_GetBlocksAtCapacity ==
    \A p \in 1..Len(rp) :
        /\ Cardinality(Holders(p)) <= cpCapacity
        /\ Len(rp[p].ch) + Cardinality(Holders(p)) <= cpCapacity
        /\ \A t \in Threads :
              (pc[t] = "get_recv" /\ snap[t] = p /\ ~rp[p].closed
                  /\ Cardinality(Holders(p)) = cpCapacity)
              => ~ENABLED GetRecv(t)

\* Capacity callers hold a connection of the open pool and another waits in Get.
C2_Witness ==
    \E t \in Threads :
        /\ pc[t] = "get_recv" /\ cpPool # 0 /\ snap[t] = cpPool
        /\ rp[cpPool].capacity > 0
        /\ Cardinality(Holders(cpPool)) = cpCapacity

\* C3: a Get whose timeout has elapsed while no connection is available is
\* cancelled: it can return (with a time-out error) without a Put.
C3_GetTimesOut ==
    \A t \in Threads :
        (Running /\ pc[t] = "get_recv" /\ arg[t] > 0 /\ expired[t]
            /\ Len(rp[snap[t]].ch) = 0 /\ ~rp[snap[t]].closed)
        => ENABLED GetRecv(t)

\* C4: IsClosed() reports cp.pool == nil; the handle is nil at first and
\* when a Close returns, non-nil when Open returns; every Open installs a
\* pool that was never used, full of empty wrappers, beside a child it has
\* just started; and a Get returns a connection to the child of the pool
\* it took the connection from.
C4_Lifecycle ==
    /\ (Len(rp) = 0 /\ Running) => cpPool = 0
    /\ ret.out = "is_closed" => cpPool = 0
    /\ ret.out = "is_open" => cpPool # 0
    /\ ret.out \in {"closed", "close_noop"} => cpPool = 0
    /\ ret.out = "opened" =>
          /\ cpPool = Len(rp) /\ cpPool # 0
          /\ rp[cpPool] = [capacity |-> cpCapacity, maxCap |-> cpCapacity,
                           ch |-> [i \in 1..cpCapacity |-> 0], closed |-> FALSE]
          /\ cpCmd = Len(child) /\ cpCmd = cpPool
          /\ child[cpCmd] = "listening"
    /\ ret.out = "conn" =>
          /\ held[ret.t].from = cpPool
          /\ held[ret.t].conn = cpCmd
          /\ child[cpCmd] = "listening"

\* After Open; Close; Open a Get has returned a connection of the second pool.
C4_Witness ==
    /\ ret.out = "conn"
    /\ held[ret.t] = [from |-> 2, conn |-> 2]
    /\ rp[1].closed

\* The threads inside Open's critical section.
Opening == {t \in Threads : pc[t] \in {"open_check", "probe", "open_pool"}}

\* C5: an Open that finds cp.pool non-nil panics and changes neither the
\* handle, the child handle, the children, the socket file nor the pools;
\* a child is started and a pool installed only by the one thread that is
\* in Open with the lock held and cp.pool nil.
C5_OpenRejectsReopen ==
    /\ [](Cardinality(Opening) <= 1 /\ \A t \in Opening : mu = t)
    /\ [][\A t \in Threads :
             (pc[t] = "open_check" /\ cpPool # 0 /\ pc'[t] # pc[t])
             => (/\ pc'[t] = "idle"
                 /\ ret' = [t |-> t, out |-> "panic_already_open"]
                 /\ UNCHANGED <<cpPool, cpCmd, rp, child, waiters, sockFile>>)]_vars
    /\ [][(Len(child') > Len(child) \/ (cpPool' # cpPool /\ cpPool' # 0))
             => (cpPool = 0 /\ Cardinality(Opening) = 1)]_vars

\* An Open was rejected while another thread's pool is open.
C5_Witness ==
    /\ ret.out = "panic_already_open"
    /\ cpPool # 0

\* C6: a Get passes its nil check only if cp.pool is non-nil, a process
\* that exited with "cache pool is not open" had cp.pool nil; and a Get
\* that started when the pool was closed never returns a connection of a
\* pool built before it started, nor does any Get return a connection
\* taken from a pool whose channel is closed.
C6_GetOnClosedPool ==
    /\ [](crashed = "pool_not_open" => cpPool = 0)
    /\ [][\A t \in Threads :
             (pc[t] = "idle" /\ pc'[t] = "get_recv") => cpPool # 0]_vars
    /\ [][\A t \in Threads :
             (held[t] = NoHold /\ held'[t] # NoHold)
             => (/\ pc[t] = "get_recv"
                 /\ held'[t].from = snap[t]
                 /\ ~rp[snap[t]].closed
                 /\ held'[t].from >= startGen[t])]_vars

\* A Get on a closed pool has ended the process.
C6_Witness ==
    /\ crashed = "pool_not_open"
    /\ Len(rp) > 0 /\ rp[Len(rp)].closed

\* C7: as long as only Get and Put have been called since Open, the
\* wrappers in the pool and the connections held add up to Capacity; every
\* Put that reaches the pool, of a connection or of nil, adds one wrapper;
\* and a Put that finds cp.pool nil changes nothing.
C7_PutNilKeepsCapacity ==
    /\ []((Running /\ Len(rp) = 1 /\ rp[1].capacity > 0)
             => Len(rp[1].ch) + Cardinality(Holders(1)) = cpCapacity)
    /\ [][\A t \in Threads :
             (pc[t] = "put_send" /\ ret'.out = "put" /\ ret'.t = t)
             => rp'[snap[t]].ch = Append(rp[snap[t]].ch, arg[t])]_vars
    /\ [][\A t \in Threads :
             (pc[t] = "idle" /\ held[t] # NoHold /\ held'[t] = NoHold)
             => (/\ cpPool = 0
                 /\ ret' = [t |-> t, out |-> "put_dropped"]
                 /\ UNCHANGED <<cpPool, cpCmd, rp, os, mu>>)]_vars

\* A Put(nil) has returned and the pool is whole again.
C7_Witness ==
    /\ ret.out = "put"
    /\ Len(rp) = 1 /\ rp[1].capacity > 0
    /\ Len(rp[1].ch) = cpCapacity
    /\ \E i \in 1..Len(rp[1].ch) : rp[1].ch[i] # 0
    /\ rp[1].ch[Len(rp[1].ch)] = 0

\* C8: startMemcache makes at most ProbeAttempts connects; a pool is built
\* only by a thread whose probe connected to the listening child and wrote
\* the health key; the ProbeAttempts-th failure kills the child, leaves it
\* to a reaper and exits with cp.pool nil, and so does a failed write.
C8_ProbeBound ==
    /\ [](\A t \in Threads : pc[t] = "probe" => count[t] <= ProbeAttempts)
    /\ [](\A t \in Threads :
             (Running /\ pc[t] = "probe") => count[t] < ProbeAttempts)
    /\ [](crashed = "cannot_connect" =>
             /\ cpPool = 0
             /\ child[cpCmd] = "killed" /\ cpCmd \in waiters
             /\ \E t \in Threads : pc[t] = "probe" /\ count[t] = ProbeAttempts)
    /\ [](crashed = "cannot_communicate" => cpPool = 0)
    /\ [][\A t \in Threads :
             (pc[t] = "probe" /\ pc'[t] = "open_pool") => child[cpCmd] = "listening"]_vars
    /\ [][Len(rp') > Len(rp) => \E t \in Threads : pc[t] = "open_pool"]_vars

\* The probe has failed ProbeAttempts times.
C8_Witness ==
    /\ crashed = "cannot_connect"
    /\ \E t \in Threads : count[t] = ProbeAttempts

\* The names of the table's primary-key columns.
PKColumnNames == {ti.Columns[ti.PKColumns[i] + 1].Name : i \in 1..Len(ti.PKColumns)}

\* The table's indexes that are not named PRIMARY.
Secondary == {i \in 1..Len(ti.Indexes) : ti.Indexes[i].Name # "PRIMARY"}

\* C9: for every table the loader produces, every secondary index's
\* DataColumns holds its own columns and the primary-key columns.
C9_SecondaryCovers ==
    tstep = "loaded" =>
        \A i \in Secondary :
            (Range(ti.Indexes[i].Columns) \cup PKColumnNames)
                \subseteq Range(ti.Indexes[i].DataColumns)

\* C10: after a successful SetPK the PRIMARY index's DataColumns holds
\* every table column and every secondary index's DataColumns holds its own
\* columns and the columns of the new primary key.
C10_SetPKCovers ==
    (tstep = "pk_set" /\ tret = "ok") =>
        /\ ti.Indexes[1].Name = "PRIMARY"
        /\ Range(ColumnNames(ti.Columns)) \subseteq Range(ti.Indexes[1].DataColumns)
        /\ \A i \in Secondary :
              (Range(ti.Indexes[i].Columns) \cup Range(ti.Indexes[1].Columns))
                  \subseteq Range(ti.Indexes[i].DataColumns)

\* The position of the index named PRIMARY, 0 if the table has none.
PrimaryAt ==
    IF \E i \in 1..Len(ti.Indexes) : ti.Indexes[i].Name = "PRIMARY"
    THEN CHOOSE i \in 1..Len(ti.Indexes) : ti.Indexes[i].Name = "PRIMARY"
    ELSE 0

\* The table has been loaded (and SetPK may have been called since).
TableLoaded == tstep \in {"loaded", "ready", "pk_set"}

\* C11: after a load and any SetPK calls, if the table has a PRIMARY index
\* then PKColumns has that index's length and its i-th entry is the
\* position in the column list of the index's i-th column.
C11_PKColumnsArePositions ==
    (TableLoaded /\ PrimaryAt # 0) =>
        LET pk == ti.Indexes[PrimaryAt] IN
        /\ ~ti.PKNil
        /\ Len(ti.PKColumns) = Len(pk.Columns)
        /\ \A i \in 1..Len(ti.PKColumns) :
              /\ ti.PKColumns[i] \in 0..(Len(ti.Columns) - 1)
              /\ ti.Columns[ti.PKColumns[i] + 1].Name = pk.Columns[i]

\* A SetPK has replaced a loaded two-column primary key by other columns.
C11_Witness ==
    /\ tstep = "pk_set" /\ tret = "ok"
    /\ PrimaryAt = 1
    /\ Len(ti.PKColumns) = 2
    /\ ti.PKColumns[1] > ti.PKColumns[2]
    /\ Len(ti.Indexes) > 1

\* C12: after a load and any SetPK calls, the PRIMARY index's DataColumns
\* holds every column of the table.
C12_PrimaryCoversAll ==
    (TableLoaded /\ PrimaryAt # 0) =>
        Range(ColumnNames(ti.Columns)) \subseteq Range(ti.Indexes[PrimaryAt].DataColumns)

\* A loaded PRIMARY index over one of two columns covers both.
C12_Witness ==
    /\ tstep = "loaded"
    /\ PrimaryAt = 1
    /\ Len(ti.Columns) = 2
    /\ Len(ti.Indexes[1].Columns) = 1
    /\ Len(ti.Indexes[1].DataColumns) = 2

\* The categories of the table's primary-key columns.
PKCategories == {ti.Columns[ti.PKColumns[i] + 1].Category : i \in 1..Len(ti.PKColumns)}

\* C13: in every state of a TableInfo, CacheType = read-write implies that
\* PKColumns is non-empty and every PK column's category is number or
\* varbinary.
C13_ReadWriteHasGoodPK ==
    ti.CacheType = "read-write" =>
        /\ Len(ti.PKColumns) > 0
        /\ PKCategories \subseteq {"number", "varbinary"}

\* The five predicates of read-write caching, as the specification lists them.
Eligible ==
    /\ cpPool # 0
    /\ ~Contains(comment, NoCacheMarker)
    /\ tableType # "VIEW"
    /\ Len(ti.PKColumns) > 0
    /\ "other" \notin PKCategories

\* C14: when NewTableInfo returns, the table is read-write cached with a
\* RowCache attached if all five predicates hold, and otherwise has
\* CacheType none and no RowCache.
C14_InitRowCacheIff ==
    (tstep = "ready" /\ tret = "none") =>
        /\ Eligible => (ti.CacheType = "read-write" /\ ti.Cache)
        /\ ~Eligible => (ti.CacheType = "none" /\ ~ti.Cache)

\* NewTableInfo returned a read-write cached table.
C14_Witness ==
    /\ tstep = "ready" /\ tret = "none"
    /\ ti.CacheType = "read-write" /\ ti.Cache
    /\ Len(ti.PKColumns) = 2

\* The capacity the specification gives a pool: connections - 50, and
\* 1024 - 50 when connections is unspecified.
SpecCapacity ==
    IF cfgConnections > 0 THEN cfgConnections - ReservedConnections
    ELSE DefaultConnections - ReservedConnections

\* C15 as stated: every Capacity() reports connections - 50 (1024 - 50 when
\* unspecified) and every MaxCap() the same.
C15_CapacityAlways ==
    ret.out \in {"capacity", "maxcap"} => val.n = SpecCapacity

\* C15, amended: a pool built with a binary has capacity connections - 50
\* (1024 - 50 when unspecified); every resource pool is built with that
\* capacity and maximum capacity; Capacity() reports it when read from a
\* pool no Close has begun to drain, MaxCap() when read from any pool; and
\* both report 0 when cp.pool is nil, Capacity() also for a pool that is
\* being closed or is closed.
C15_CapacityWhileOpen ==
    /\ (built /\ binary) => cpCapacity = SpecCapacity
    /\ \A p \in 1..Len(rp) :
          /\ rp[p].maxCap = SpecCapacity
          /\ rp[p].capacity \in {0, SpecCapacity}
          /\ rp[p].capacity = 0 =>
                (rp[p].closed \/ (pc[Owner] = "close_drain" /\ snap[Owner] = p))
    /\ (ret.out = "capacity" /\ val.from # 0 /\ rp[val.from].capacity # 0)
          => val.n = SpecCapacity
    /\ (ret.out = "maxcap" /\ val.from # 0) => val.n = SpecCapacity
    /\ (ret.out \in {"capacity", "maxcap"} /\ val.from = 0) => val.n = 0
    /\ (ret.out = "capacity" /\ val.from # 0 /\ rp[val.from].capacity = 0)
          => val.n = 0

\* Capacity() has reported the default capacity of an open pool.
C15_Witness ==
    /\ ret.out = "capacity"
    /\ cfgConnections = 0
    /\ val = [from |-> cpPool, n |-> DefaultConnections - ReservedConnections]
    /\ cpPool # 0 /\ rp[cpPool].capacity = rp[cpPool].maxCap

\* C16 as stated: NewCachePool with a binary never returns a pool whose
\* configured connections value is 50 or less.
C16_NoPoolUpTo50 ==
    (built /\ binary) => cfgConnections > ReservedConnections

\* C16, amended: with a binary, NewCachePool exits the process exactly when
\* connections is in 1..50; a value of zero or less counts as unspecified
\* and gets the default; so no pool built with a binary has a capacity of
\* zero or less.
C16_FewConnectionsFatal ==
    /\ crashed = "insufficient_capacity"
          => (binary /\ cfgConnections \in 1..ReservedConnections /\ ~built)
    /\ (built /\ binary)
          => (cfgConnections \notin 1..ReservedConnections /\ cpCapacity > 0)
    /\ \A p \in 1..Len(rp) : rp[p].maxCap > 0

\* NewCachePool has exited on exactly 50 connections.
C16_Witness ==
    /\ crashed = "insufficient_capacity"
    /\ cfgConnections = ReservedConnections

\* Every value GetMaxPrefix has returned, with the thread and the call it
\* was returned to.
Returned == {<<t, i>> : t \in Threads, i \in 1..MaxPrefixCalls} \cap
            {c \in Threads \X (1..MaxPrefixCalls) : c[2] <= Len(prefixes[c[1]])}

\* C17: no two calls of GetMaxPrefix return the same value, and the values
\* returned to one thread strictly increase.
C17_PrefixesDistinct ==
    /\ \A c, d \in Returned :
          c # d => prefixes[c[1]][c[2]] # prefixes[d[1]][d[2]]
    /\ \A t \in Threads : \A i \in 1..(Len(prefixes[t]) - 1) :
          prefixes[t][i] < prefixes[t][i + 1]

\* Calls of two threads have interleaved.
C17_Witness ==
    \E t, u \in Threads :
        /\ t # u
        /\ Len(prefixes[t]) >= 2 /\ Len(prefixes[u]) >= 2
        /\ prefixes[t][1] < prefixes[u][1]
        /\ prefixes[u][1] < prefixes[t][2]

\* C19: for a pool built with a binary, DeleteExpiry is zero when no query
\* timeout is configured and otherwise 2 * (the timeout's whole seconds) + 15.
C19_DeleteExpiry ==
    (built /\ binary) =>
        deleteExpiry = IF queryTimeout = 0 THEN 0
                       ELSE 2 * (queryTimeout \div Second) + 15

\* C18: a SetPK fails with "column not found" exactly when one of its
\* names is not a column of the table, and a failed SetPK leaves the
\* table (its indexes, their columns and DataColumns, PKColumns) as it was.
C18_SetPKFailureKeepsTable ==
    /\ [][(tstep \in {"ready", "pk_set"}) =>
             (tret' = "column_not_found"
                 <=> \E i \in 1..Len(targ') :
                        targ'[i] \notin Range(ColumnNames(ti.Columns)))]_vars
    /\ [][(tstep \in {"ready", "pk_set"} /\ tret' = "column_not_found")
             => (ti' = ti /\ tstep' = tstep)]_vars

\* A SetPK has failed on a table with a primary key set by an earlier SetPK
\* and a secondary index.
C18_Witness ==
    /\ tret = "column_not_found"
    /\ tstep = "pk_set"
    /\ Len(targ) = 2
    /\ Len(ti.Indexes) > 1

\* The analyser analyzeSQL hands each kind of statement to.
AnalyserOf(kind) ==
    CASE kind = "select" -> "analyzeSelect"
      [] kind = "insert" -> "analyzeInsert"
      [] kind = "update" -> "analyzeUpdate"
      [] kind = "delete" -> "analyzeDelete"
      [] kind = "set" -> "analyzeSet"
      [] kind = "ddl" -> "analyzeDDL"
      [] OTHER -> ""

Tokens(q) == {q[i] : i \in 1..Len(q)}

\* C21: GenerateSelectLimitQuery prints a SELECT that has its own LIMIT with
\* that LIMIT, a SELECT without one with the execLimit sentinel, and a UNION
\* without an injected limit; the sentinel is in the text iff the statement
\* is a SELECT without LIMIT; and once the call has returned the statement
\* is what it was before the call.
C21_LimitInjectedIffAbsent ==
    gstep = "returned" =>
        /\ selStmt = selStmt0
        /\ (selStmt0.kind = "select" /\ selStmt0.Left.Limit.set) =>
              query = FormatSelect(selStmt0.Left)
        /\ (selStmt0.kind = "select" /\ ~selStmt0.Left.Limit.set) =>
              /\ query = <<"select", "*", "from", selStmt0.Left.table,
                           "limit", ":#maxLimit">>
              /\ ~selStmt.Left.Limit.set
        /\ selStmt0.kind = "union" => query = FormatStatement(selStmt0)
        /\ ":#maxLimit" \in Tokens(query) <=>
              (selStmt0.kind = "select" /\ ~selStmt0.Left.Limit.set)

\* A SELECT without LIMIT was printed with the sentinel and the call returned.
C21_Witness ==
    /\ gstep = "returned"
    /\ selStmt0.kind = "select" /\ ~selStmt0.Left.Limit.set
    /\ deferred
    /\ ":#maxLimit" \in Tokens(query)

\* C22: in every interleaving of Open and Close calls, a Close that clears
\* the handle clears the pool it drained in its first phase: that pool is
\* the one its snapshot named, it has been closed, and the child killed is
\* the one started by the Open that built that pool.
C22_CloseDetachesOnlyDrainedPool ==
    [][\A t \in Threads :
          (pc[t] = "close_cleanup" /\ pc'[t] # pc[t] /\ cpPool # 0 /\ cpPool' = 0) =>
              /\ snap[t] = cpPool
              /\ rp[cpPool].closed
              /\ cpCmd = cpPool]_vars

\* The positions of the indexes named PRIMARY.
Primaries == {i \in 1..Len(ti.Indexes) : ti.Indexes[i].Name = "PRIMARY"}

\* C23: after a load and any successful SetPK calls the index list holds at
\* most one index named PRIMARY, at position 0 if there is one; a
\* successful SetPK either replaces the PRIMARY at position 0 (same number
\* of indexes) or inserts one at position 0 (one index more), and the other
\* indexes follow in their previous order.
C23_OnePrimaryInFront ==
    /\ [](TableLoaded => Primaries \subseteq {1})
    /\ [][(tstep \in {"ready", "pk_set"} /\ tstep' = "pk_set" /\ tret' = "ok") =>
             /\ ti'.Indexes[1].Name = "PRIMARY"
             /\ ti'.Indexes[1].Columns = targ'
             /\ IF Primaries = {1}
                THEN /\ Len(ti'.Indexes) = Len(ti.Indexes)
                     /\ Tail(ti'.Indexes) = Tail(ti.Indexes)
                ELSE /\ Len(ti'.Indexes) = Len(ti.Indexes) + 1
                     /\ Tail(ti'.Indexes) = ti.Indexes]_vars

\* A SetPK put a PRIMARY in front of the two secondary indexes of a table
\* that was loaded without one.
C23_Witness ==
    /\ tstep = "pk_set" /\ tret = "ok"
    /\ Len(ti.Indexes) = Cardinality(IndexNames)
    /\ Primaries = {1}
    /\ ti.Indexes[1].Columns = targ
    /\ \A i \in 2..Len(ti.Indexes) : ti.Indexes[i].Name # "PRIMARY"
====
